---------------------------- MODULE Spec2Model ----------------------------
(***************************************************************************)
(* Roundup service of bite (src/src/bite/service/roundup.py): search query *)
(* construction (ParamParser steps, _finalize, encode_params), batched     *)
(* multicall requests and their decoding, the merged multicall of the get  *)
(* command and the cache refresh.                                          *)
(*                                                                         *)
(* One run of the model is one command invocation: a request is built,     *)
(* encoded, sent and its reply decoded.                                    *)
(*                                                                         *)
(* Strings that the code takes apart are sequences of chunks: a sort term  *)
(* is <<"-", "priority">> for '-priority', <<"id">> for 'id', <<>> for ''  *)
(* and <<"-">> for '-'.  A chunk "-" is the single character '-'; every    *)
(* other chunk is a non-empty run of characters not starting with '-'.     *)
(***************************************************************************)
EXTENDS Integers, Sequences, FiniteSets, TLC

VARIABLES cmd, pc, cache, req, wire, reply, result, err, sent, encoded

vars == <<cmd, pc, cache, req, wire, reply, result, err, sent, encoded>>

\* ------------------------------------------------------------------ bounds
MaxSort == 2        \* sort terms in one --sort value
MaxOpts == 2        \* query options given in one search
MaxTime == 1        \* distinct timestamps
MaxBatch == 3       \* calls in one multicall request
MaxItems == 3       \* items of one get
MaxFiles == 1       \* files (and messages) of one item
MaxVals == 2        \* values of one attribute listed by the backend
MaxKeywords == 2    \* keywords of one item
MaxMessages == 2    \* messages of one issue whose comments are requested

\* ----------------------------------------------------------------- helpers
None == [none |-> TRUE]

NoError == [kind |-> "none", msg |-> "", key |-> <<>>, choices |-> {}]

Error(kind, msg) == [kind |-> kind, msg |-> msg, key |-> <<>>, choices |-> {}]

IsError(e) == e.kind # "none"

Min(a, b) == IF a < b THEN a ELSE b

RECURSIVE Sum(_)
Sum(s) == IF s = <<>> THEN 0 ELSE Head(s) + Sum(Tail(s))

RECURSIVE Concat(_)
Concat(ss) == IF ss = <<>> THEN <<>> ELSE Head(ss) \o Concat(Tail(ss))

\* the sequences of length lo..hi over S
SeqsOf(S, lo, hi) == UNION {[1..n -> S] : n \in lo..hi}

\* dict helpers: a dict is a function from keys to values
EmptyDict == <<>>

DictSet(d, k, v) == [x \in (DOMAIN d) \cup {k} |-> IF x = k THEN v ELSE d[x]]

DictPop(d, k) == [x \in (DOMAIN d) \ {k} |-> d[x]]

\* ------------------------------------------------------------------ errors
\* code=None of an error
NoCode == "None"

\* the message of a tracker exception: <class 'code'>:text
RoundupExc(msg) == Len(msg) = 4 /\ msg[1] = "<class '" /\ msg[3] = "'>:"

\* RoundupError.__init__: the code and the text are taken out of a message
\* of the tracker's form, 'Roundup error: ' is put before the message
RoundupError(msg, code) ==
    IF RoundupExc(msg)
    THEN [kind |-> "RoundupError", msg |-> <<"Roundup error: ", msg[4]>>,
          code |-> msg[2]]
    ELSE [kind |-> "RoundupError", msg |-> <<"Roundup error: ">> \o msg,
          code |-> code]

\* a fault descriptor in a reply
Fault(faultCode, faultString) ==
    [fault |-> TRUE, faultCode |-> faultCode, faultString |-> faultString]

IsFault(x) == "fault" \in DOMAIN x

\* the service's error for a fault: _service_error_cls(msg, code)
ServiceError(f) == RoundupError(f.faultString, f.faultCode)

FaultCodes ==
    {"exceptions.IndexError", "exceptions.KeyError", "exceptions.ValueError"}

FaultTexts == {"no such issue", "title"}

\* the fault strings of the tracker, and a fault string of another form
FaultStrings ==
    { <<"<class '", c, "'>:", t>> : c \in FaultCodes, t \in FaultTexts }
    \cup { <<t>> : t \in FaultTexts }

Faults == { Fault("1", m) : m \in FaultStrings }

\* ------------------------------------------------------------------- cache
\* RoundupCache defaults: every entry is the empty tuple
CacheDefaults ==
    [status |-> <<>>, priority |-> <<>>, keyword |-> <<>>, users |-> <<>>]

\* status entries a session may have loaded from its cache file
StatusEntries ==
    { <<>>, <<"open", "closed">>, <<"closed", "open", "pending">> }

\* ------------------------------------------------- _SearchRequest and steps
\* _SearchRequest._params_map
_params_map == ("created" :> "creation") @@ ("modified" :> "activity")

\* a sorting map that hands every name to the service unchanged
SortingMapWithoutWireNames ==
    [n \in {"assignee", "id", "creator", "created", "modified", "modified-by",
            "components", "depends", "keywords", "comments", "cc", "priority",
            "prs", "resolution", "severity", "stage", "status", "title",
            "type"} |-> n]

\* _SearchRequest.ParamParser._sorting_map
_sorting_map ==
    ("assignee" :> "assignee") @@ ("id" :> "id") @@ ("creator" :> "creator") @@
    ("created" :> "creation") @@ ("modified" :> "activity") @@
    ("modified-by" :> "actor") @@ ("components" :> "components") @@
    ("depends" :> "dependencies") @@ ("keywords" :> "keywords") @@
    ("comments" :> "message_count") @@ ("cc" :> "nosy_count") @@
    ("priority" :> "priority") @@ ("prs" :> "pull_requests") @@
    ("resolution" :> "resolution") @@ ("severity" :> "severity") @@
    ("stage" :> "stage") @@ ("status" :> "status") @@ ("title" :> "title") @@
    ("type" :> "type")

\* the parser's state: self.params, self.options and the exception raised
NewParser == [params |-> EmptyDict, options |-> <<>>, err |-> NoError]

Raise(ps, e) == [ps EXCEPT !.err = e]

\* lines 329-334: the key and the order of one sort term; sort[0] of the
\* empty string raises IndexError
SortKey(sort) == IF Head(sort) = "-" THEN Tail(sort) ELSE sort

\* a sort step that drops the '-' and always sorts ascending
SortOrderAlwaysAscending(sort) == "+"

SortOrder(sort) == IF Head(sort) = "-" THEN "-" ELSE "+"

\* key in self._sorting_map: a key is one name of the map
KnownSortKey(key) == Len(key) = 1 /\ key[1] \in DOMAIN _sorting_map

\* lines 337-340: the BiteError of an unknown sort key, with every choice
SortError(key) ==
    [kind |-> "BiteError", msg |-> "unable to sort by", key |-> key,
     choices |-> DOMAIN _sorting_map]

\* the exception one term raises, NoError if none
SortTermError(sort) ==
    IF sort = <<>> THEN Error("IndexError", "string index out of range")
    ELSE IF KnownSortKey(SortKey(sort)) THEN NoError
    ELSE SortError(SortKey(sort))

\* line 341: the tuple appended for a term that raised nothing
SortTerm(sort) == <<SortOrder(sort), _sorting_map[SortKey(sort)[1]]>>

\* ParamParser.sort
sort(ps, k, v) ==
    LET bad == {i \in 1..Len(v) : IsError(SortTermError(v[i]))}
    IN  IF bad # {}
        THEN Raise(ps, SortTermError(v[CHOOSE i \in bad : \A j \in bad : i <= j]))
        ELSE [ps EXCEPT
                !.params = DictSet(ps.params, k, [i \in 1..Len(v) |-> SortTerm(v[i])]),
                !.options = Append(ps.options, [label |-> "Sort order", value |-> v])]

\* ParamParser.terms
terms(ps, k, v) ==
    [ps EXCEPT !.params = DictSet(ps.params, "title", v),
               !.options = Append(ps.options, [label |-> "Summary", value |-> v])]

\* str.capitalize of the field names the created step is registered for
Capitalize(k) == IF k = "created" THEN "Created" ELSE "Modified"

\* v.strftime('%Y-%m-%d.%H:%M:%S') followed by ';.'
SinceValue(v) == <<"%Y-%m-%d.%H:%M:%S", v, ";.">>

\* a step that writes the parameter of the name it was first registered for
CreatedUnderOwnName(ps, k, v) ==
    [ps EXCEPT !.params = DictSet(ps.params, "created", SinceValue(v)),
               !.options = Append(ps.options,
                                  [label |-> Capitalize(k), value |-> <<v, "since", v>>])]

\* ParamParser.created, aliased as modified
created(ps, k, v) ==
    [ps EXCEPT !.params = DictSet(ps.params, k, SinceValue(v)),
               !.options = Append(ps.options,
                                  [label |-> Capitalize(k), value |-> <<v, "since", v>>])]


\* 1-based position of a name in a cache entry
IndexOf(name, entry) == CHOOSE i \in 1..Len(entry) :
    entry[i] = name /\ \A j \in 1..(i - 1) : entry[j] # name

\* the status step of ParseRequest.ParamParser: the codes of the given status
\* names and the option line naming them
status(ps, k, v, cached_statuses) ==
    [ps EXCEPT
       !.params = DictSet(ps.params, "status",
                          [i \in 1..Len(v) |-> IndexOf(v[i], cached_statuses)]),
       !.options = Append(ps.options, [label |-> "Status", value |-> v])]

\* positions counted from 0, as enumerate gives them
RECURSIVE OpenStatusesZeroBased(_, _)
OpenStatusesZeroBased(cached_statuses, i) ==
    IF i > Len(cached_statuses) THEN <<>>
    ELSE (IF cached_statuses[i] # "closed" THEN <<i - 1>> ELSE <<>>)
         \o OpenStatusesZeroBased(cached_statuses, i + 1)

\* lines 313-314: i + 1 for i, x in enumerate(cached_statuses) if x != 'closed'
RECURSIVE OpenStatuses(_, _)
OpenStatuses(cached_statuses, i) ==
    IF i > Len(cached_statuses) THEN <<>>
    ELSE (IF cached_statuses[i] # "closed" THEN <<i>> ELSE <<>>)
         \o OpenStatuses(cached_statuses, i + 1)

NoTermsError == Error("BiteError", "no supported search terms or options specified")

\* a finalize that sets no default sort
DefaultSortMissing(params) == params

\* line 306: self.params.setdefault('sort', [('+', 'id')])
DefaultSort(params) ==
    IF "sort" \in DOMAIN params THEN params
    ELSE DictSet(params, "sort", << <<"+", "id">> >>)

\* lines 310-315: the default status filter
DefaultStatus(params, cached_statuses) ==
    IF "status" \notin DOMAIN params /\ cached_statuses # <<>>
    THEN DictSet(params, "status", OpenStatuses(cached_statuses, 1))
    ELSE params

\* a check that only looks for an empty parameter map
NoSearchTermsEmptyOnly(params) == DOMAIN params = {}

\* line 302: not self.params or self.params.keys() == {'sort'}
NoSearchTerms(params) == DOMAIN params = {} \/ DOMAIN params = {"sort"}

\* ParamParser._finalize
_finalize(ps, cached_statuses) ==
    IF NoSearchTerms(ps.params) THEN Raise(ps, NoTermsError)
    ELSE [ps EXCEPT !.params = DefaultStatus(DefaultSort(ps.params), cached_statuses)]

\* the order in which the command layer hands the options over
FieldOrder == <<"terms", "status", "created", "modified", "sort", "keywords">>

\* an option that is None, empty or zero is not given
Given(query, k) ==
    IF k \in {"created", "modified"} THEN query[k] # 0 ELSE query[k] # <<>>

\* the steps the Roundup ParamParser has: its own and the inherited ones
ParserSteps == {"terms", "status", "created", "modified", "sort"}

\* one step of ParseRequest.parse_params: the parser method named like the
\* option runs, an option without a method is not translated
ParseStep(ps, k, v, cached_statuses) ==
    IF k \notin ParserSteps THEN ps
    ELSE IF k = "terms" THEN terms(ps, k, v)
    ELSE IF k = "status" THEN status(ps, k, v, cached_statuses)
    ELSE IF k = "sort" THEN sort(ps, k, v)
    ELSE created(ps, k, v)

\* ParseRequest.parse_params: every given option in order, the first
\* exception ends the construction, then _finalize
RECURSIVE ParseFrom(_, _, _, _)
ParseFrom(ps, query, i, cached_statuses) ==
    IF IsError(ps.err) THEN ps
    ELSE IF i > Len(FieldOrder) THEN _finalize(ps, cached_statuses)
    ELSE LET k == FieldOrder[i]
         IN  ParseFrom(IF Given(query, k)
                       THEN ParseStep(ps, k, query[k], cached_statuses)
                       ELSE ps,
                       query, i + 1, cached_statuses)

parse_params(query, cached_statuses) == ParseFrom(NewParser, query, 1, cached_statuses)

\* _SearchRequest.encode_params: ('issue', None, params without sort, sort)
SearchEncodeParams(params) ==
    IF "sort" \notin DOMAIN params
    THEN [err |-> Error("KeyError", "sort"), wire |-> <<>>]
    ELSE [err |-> NoError,
          wire |-> <<"issue", None, DictPop(params, "sort"), params["sort"]>>]

\* ------------------------------------------------------------ query inputs
TermsValues == { <<"crash">>, <<"crash", "gui">> }

SortTerms ==
    { <<"-", "priority">>, <<"id">>, <<"-", "modified">>, <<"nosuch">>,
      <<>>, <<"-">>, <<"-", "-", "id">> }

SortValues == SeqsOf(SortTerms, 1, MaxSort)

\* status names the user can give: names of the cached status entry
StatusValues(entry) ==
    { <<entry[i]>> : i \in 1..Len(entry) } \cup
    { <<entry[p[1]], entry[p[2]]>> :
        p \in {x \in (1..Len(entry)) \X (1..Len(entry)) : x[1] < x[2]} }

\* the fields argument: <<>> is fields=None, an empty list of fields is
\* not among the inputs
FieldsValues == { <<>>, <<"id", "title">>, <<"id", "bogus">> }

NoQuery ==
    [terms |-> <<>>, status |-> <<>>, created |-> 0, modified |-> 0,
     sort |-> <<>>, keywords |-> <<>>, fields |-> <<>>]

GivenFields(query) == {FieldOrder[i] : i \in {j \in 1..Len(FieldOrder) : Given(query, FieldOrder[j])}}

Queries(entry) ==
    { q \in [terms : TermsValues \cup {<<>>},
             status : StatusValues(entry) \cup {<<>>},
             created : 0..MaxTime,
             modified : 0..MaxTime,
             sort : SortValues \cup {<<>>},
             keywords : { <<>>, <<"easy">> },
             fields : FieldsValues] :
        Cardinality(GivenFields(q)) \in 1..MaxOpts }

\* ------------------------------------------------------------------ search
NoReq == [kind |-> "none"]

\* RoundupIssue.attributes.keys()
ItemAttributes ==
    <<"assignee", "components", "dependencies", "files", "keywords",
      "messages", "nosy", "priority", "pull_requests", "resolution",
      "severity", "stage", "status", "superseder", "title", "type",
      "versions", "id", "creator", "creation", "actor", "activity">>

\* line 256: set(fields).difference(self.service.item.attributes.keys()),
\* in the order of fields
UnknownFields(fields) ==
    SelectSeq(fields, LAMBDA f : \A i \in 1..Len(ItemAttributes) : ItemAttributes[i] # f)

\* line 258
UnknownFieldsError(fields) ==
    [kind |-> "BiteError", msg |-> "unknown fields", key |-> UnknownFields(fields),
     choices |-> {}]

\* lines 253-260: the exception of the fields check, the option it adds and
\* self.fields
FieldsError(fields) ==
    IF fields # <<>> /\ UnknownFields(fields) # <<>>
    THEN UnknownFieldsError(fields) ELSE NoError

FieldsOptions(fields) ==
    IF fields = <<>> THEN <<>> ELSE << [label |-> "Fields", value |-> fields] >>

SearchFields(fields) ==
    IF fields = <<>> THEN <<"id", "assignee", "title">> ELSE fields

\* _SearchRequest.__init__ without its effect on the transport: the parser
\* runs in super().__init__, then the fields are checked
SearchConstruct ==
    /\ cmd = "none"
    /\ \E query \in Queries(cache.status) :
         LET ps == parse_params(query, cache.status)
             e == IF IsError(ps.err) THEN ps.err ELSE FieldsError(query.fields)
         IN  /\ cmd' = "search"
             /\ req' = [kind |-> "search", query |-> query,
                        params |-> ps.params,
                        options |-> IF IsError(e) THEN ps.options
                                    ELSE ps.options \o FieldsOptions(query.fields),
                        fields |-> IF IsError(e) THEN <<>>
                                   ELSE SearchFields(query.fields),
                        data |-> <<>>]
             /\ err' = e
             /\ pc' = IF IsError(e) THEN "failed" ELSE "built"
    /\ UNCHANGED <<cache, wire, reply, result, encoded>>

\* a construction that sends the query to the tracker to have it checked
SearchNewValidating ==
    /\ SearchConstruct
    /\ sent' = Append(sent, <<"issue", None, req'.params, <<>> >>)

\* Roundup.SearchRequest(**query): the request or the exception raised
SearchNew ==
    /\ SearchConstruct
    /\ sent' = sent

\* request.encode_params() of a constructed search request, the first
\* time and once more
SearchEncode ==
    /\ cmd = "search" /\ pc \in {"built", "encoded"}
    /\ LET e == SearchEncodeParams(req.params)
       IN  /\ wire' = e.wire
           /\ err' = e.err
           /\ encoded' = IF IsError(e.err) THEN encoded ELSE Append(encoded, e.wire)
           /\ pc' = IF IsError(e.err) THEN "failed"
                     ELSE IF pc = "built" THEN "encoded" ELSE "reencoded"
    /\ UNCHANGED <<cmd, cache, req, reply, result, sent>>

\* the ids the tracker may answer a filter call with
SearchReplies == { <<>>, <<2, 1>> }

\* request.send() up to the reply: the transport sends the payload
SearchSend ==
    /\ cmd = "search" /\ pc = "encoded"
    /\ sent' = Append(sent, wire)
    /\ reply' \in SearchReplies
    /\ pc' = "replied"
    /\ UNCHANGED <<cmd, cache, req, wire, result, err, encoded>>

\* ------------------------------------------------------ multicall requests
\* texts the backend returns: 'a' and ' b'
Contents == { <<"a">>, <<" ", "b">> }

\* str.strip
RECURSIVE Strip(_)
Strip(s) ==
    IF s = <<>> THEN s
    ELSE IF Head(s) = " " THEN Strip(Tail(s))
    ELSE IF s[Len(s)] = " " THEN Strip(SubSeq(s, 1, Len(s) - 1))
    ELSE s

\* lists of distinct ids, in any order
IdLists(lo, hi) ==
    { ids \in SeqsOf(1..hi, lo, hi) :
        \A i \in 1..Len(ids), j \in 1..Len(ids) : ids[i] = ids[j] => i = j }

\* _GetItemRequest.__init__
GetItemRequest(ids, fields) ==
    [kind |-> "getitem", command |-> "display", ids |-> ids, fields |-> fields,
     exhausted |-> FALSE]

\* line 360: chain([f'issue{i}'], fields) for i in ids
GetItemParams(r) == [i \in 1..Len(r.ids) |-> << <<"issue", r.ids[i]>> >> \o r.fields]

\* _AttachmentsRequest.__init__
AttachmentsRequest(attachment_ids, get_data) ==
    [kind |-> "attachments", command |-> "display", ids |-> <<>>,
     attachment_ids |-> attachment_ids,
     fields |-> <<"name", "type", "creator", "creation">>
                \o (IF get_data THEN <<"content">> ELSE <<>>),
     exhausted |-> FALSE]

\* line 432: chain([f'file{i}'], fields) for i in attachment_ids
AttachmentsParams(r) ==
    [i \in 1..Len(r.attachment_ids) |-> << <<"file", r.attachment_ids[i]>> >> \o r.fields]

\* _CommentsRequest.__init__ with comment ids and no issue ids
CommentsRequest(comment_ids) ==
    [kind |-> "comments", command |-> "display", ids |-> <<>>,
     comment_ids |-> comment_ids, fields |-> <<>>]

\* line 478: chain([f'msg{i}'], self.fields) for i in self.comment_ids
CommentsParams(r) ==
    [i \in 1..Len(r.comment_ids) |-> << <<"msg", r.comment_ids[i]>> >> \o r.fields]

\* the request for which no call is sent
NullRequest == [kind |-> "null", command |-> "", ids |-> <<>>, fields |-> <<>>]

\* line 207: self.multicall(command='lookup', params=([attr, x] for x in data))
LookupRequest(attr, data) ==
    [kind |-> "lookup", command |-> "lookup", attr |-> attr, names |-> data,
     exhausted |-> FALSE]

\* params that look up the first value only
LookupParamsFirstOnly(r) ==
    [i \in 1..Min(1, Len(r.names)) |-> <<r.attr, r.names[i]>>]

LookupParams(r) == [i \in 1..Len(r.names) |-> <<r.attr, r.names[i]>>]

\* the calls of a request, one per id
Params(r) ==
    IF r.kind \in {"getitem", "get"} THEN GetItemParams(r)
    ELSE IF r.kind = "lookup" THEN LookupParams(r)
    ELSE IF r.kind = "attachments" THEN AttachmentsParams(r)
    ELSE IF r.kind = "comments" THEN CommentsParams(r)
    ELSE <<>>

\* a generator that has been iterated yields nothing more
Exhaust(r) == IF "exhausted" \in DOMAIN r THEN [r EXCEPT !.exhausted = TRUE] ELSE r

\* what iterating the params of a request yields: self.params of lines 360
\* and 432 is a generator, the params of line 478 are built by every encode
EncodeParams(r) ==
    IF "exhausted" \in DOMAIN r /\ r.exhausted THEN <<>> ELSE Params(r)

\* Multicall.encode_params: one (method, params) entry per call, in order
MulticallEncode(command, params) ==
    [i \in 1..Len(params) |-> [methodName |-> command, params |-> params[i]]]

ProtocolError == Error("ProtocolError", "reply count differs from call count")

\* Multicall.parse: the replies, one per call in call order; a reply of
\* another length is a protocol error
MulticallParse(calls, data) ==
    IF Len(data) # calls THEN [err |-> ProtocolError, out |-> <<>>]
    ELSE [err |-> NoError, out |-> data]

\* the results of a reply are handed out one by one: those before the first
\* fault are yielded, consuming the fault raises the service's error
UnwrapFaults(unwrapped) ==
    LET bad == {i \in 1..Len(unwrapped.out) : IsFault(unwrapped.out[i])}
        first == CHOOSE i \in bad : \A j \in bad : i <= j
    IN  IF IsError(unwrapped.err) \/ bad = {} THEN unwrapped
        ELSE [err |-> ServiceError(unwrapped.out[first]),
              out |-> SubSeq(unwrapped.out, 1, first - 1)]

\* the codes of a reply are strings: '1', '2', ..., and '0', '-1', ... for
\* what int() also reads
CodeRange == (0 - MaxVals - 1)..(MaxVals + 2)

Codes == {ToString(n) : n \in CodeRange}

\* int(v) of a code
int(v) == CHOOSE n \in CodeRange : ToString(n) = v

\* v is None: the link is not set
Unset == "None"

\* t[i] of a tuple: positions count from 0, a negative i counts from the
\* end, any other i raises IndexError
PyIndexable(t, i) == (0 - Len(t)) <= i /\ i < Len(t)

PyIndex(t, i) == IF i >= 0 THEN t[i + 1] ELSE t[Len(t) + i + 1]

\* a lookup that takes the code as the position
CacheGetZeroBased(entry, v) ==
    IF PyIndexable(entry, int(v)) THEN PyIndex(entry, int(v)) ELSE v

\* lines 105-109, 112-116, 119-123, 128-132: cache[...][int(v)-1], and v
\* itself when that raises IndexError
CacheGet(entry, v) ==
    IF PyIndexable(entry, int(v) - 1) THEN PyIndex(entry, int(v) - 1) ELSE v

\* parsetime: the microseconds are dropped
parsetime(time) == [time EXCEPT !.microsecond = 0]

\* RoundupIssue.__init__: setattr(self, k, ...) for every k of the reply; a
\* multilink value is a list, never None
RoundupIssue(kw) ==
    [k \in DOMAIN kw |->
        IF k \in {"creation", "activity"} THEN parsetime(kw[k])
        ELSE IF k \in {"creator", "actor"} THEN CacheGet(cache.users, kw[k])
        ELSE IF k = "status" THEN CacheGet(cache.status, kw[k])
        ELSE IF k = "priority" /\ kw[k] # Unset
        THEN CacheGet(cache.priority, kw[k])
        ELSE IF k = "keyword"
        THEN [i \in 1..Len(kw[k]) |-> CacheGet(cache.keyword, kw[k][i])]
        ELSE kw[k]]

\* _GetItemRequest.parse
GetItemParse(r, data) ==
    LET issues == UnwrapFaults(MulticallParse(Len(r.ids), data))
    IN  [err |-> issues.err,
         out |-> [i \in 1..Len(issues.out) |-> RoundupIssue(issues.out[i])]]

\* the id an attachment gets
AttachmentIdFirst(ids, i) == ids[1]

\* line 446: id=ids[i]
AttachmentId(ids, i) == ids[i]

\* lines 445-447: RoundupAttachment(id=ids[i], filename=d['name'], ...)
RoundupAttachment(ids, i, d) == [id |-> AttachmentId(ids, i), filename |-> d.name]

\* a parse that reads the raw reply instead of the unwrapped result
AttachmentsParseUnchecked(r, data) ==
    IF Len(data) > Len(r.attachment_ids)
    THEN [err |-> Error("IndexError", "list index out of range"), out |-> <<>>]
    ELSE [err |-> NoError,
          out |-> << [i \in 1..Len(data) |->
                        RoundupAttachment(r.attachment_ids, i, data[i])] >>]

\* _AttachmentsRequest.parse: yields one tuple of attachments
AttachmentsParse(r, data) ==
    LET unwrapped == UnwrapFaults(MulticallParse(Len(r.attachment_ids), data))
        ids == IF r.attachment_ids # <<>> THEN r.attachment_ids ELSE r.ids
    IN  IF IsError(unwrapped.err) THEN [err |-> unwrapped.err, out |-> <<>>]
        ELSE IF Len(unwrapped.out) > Len(ids)
        THEN [err |-> Error("IndexError", "list index out of range"), out |-> <<>>]
        ELSE [err |-> NoError,
              out |-> << [i \in 1..Len(unwrapped.out) |->
                            RoundupAttachment(ids, i, unwrapped.out[i])] >>]

\* lines 496-498: RoundupComment(id=self.comment_ids[i], count=i, text=...)
RoundupComment(comment_ids, i, d) ==
    [id |-> comment_ids[i], count |-> i - 1, text |-> Strip(d.content)]

\* BaseCommentsRequest.filter without filter options
CommentsFilter(items) == items

\* lines 490-492: RoundupComment(id=self.comment_ids[count], count=i, ...),
\* count running over the whole reply and i over the group
RoundupGroupComment(comment_ids, count, i, d) ==
    [id |-> comment_ids[count], count |-> i - 1, text |-> Strip(d.content)]

\* the number of results the groups before the k-th have taken
GroupStart(r, k) == Sum([j \in 1..(k - 1) |-> r._id_info[j][2]])

\* a grouping that slices every group from the start of the results
CommentsGroupFromStart(r, out, k) ==
    [i \in 1..r._id_info[k][2] |->
        RoundupGroupComment(r.comment_ids, i, i, out[i])]

\* lines 487-494: the group of the k-th issue, made of the next length
\* results: islice(data, length) goes on where the group before stopped
CommentsGroup(r, out, k) ==
    [i \in 1..r._id_info[k][2] |->
        RoundupGroupComment(r.comment_ids, GroupStart(r, k) + i, i,
                            out[GroupStart(r, k) + i])]

\* lines 485-494: one tuple of comments per issue; the groups whose results
\* all come before a fault are yielded before the fault is raised
CommentsGroups(r, unwrapped) ==
    LET whole == {k \in 1..Len(r._id_info) :
                    GroupStart(r, k) + r._id_info[k][2] <= Len(unwrapped.out)}
    IN  [k \in 1..Cardinality(whole) |-> CommentsGroup(r, unwrapped.out, k)]

\* _CommentsRequest.parse: with issue ids one tuple of comments per issue,
\* without them one tuple of comments
CommentsParse(r, data) ==
    LET checked == MulticallParse(Len(r.comment_ids), data)
        unwrapped == UnwrapFaults(checked)
    IN  IF r.ids # <<>>
        THEN IF IsError(checked.err) THEN [err |-> checked.err, out |-> <<>>]
             ELSE [err |-> unwrapped.err,
                   out |-> CommentsFilter(CommentsGroups(r, unwrapped))]
        ELSE IF IsError(unwrapped.err) THEN [err |-> unwrapped.err, out |-> <<>>]
        ELSE IF Len(unwrapped.out) > Len(r.comment_ids)
        THEN [err |-> Error("IndexError", "list index out of range"), out |-> <<>>]
        ELSE [err |-> NoError,
              out |-> CommentsFilter(
                        << [i \in 1..Len(unwrapped.out) |->
                              RoundupComment(r.comment_ids, i, unwrapped.out[i])] >>)]

\* Multicall.parse of a lookup request: the ids, one per looked up name
LookupParse(r, data) == MulticallParse(Len(r.names), data)

\* NullRequest.parse: the empty result, whatever the reply
NullParse(r, data) == [err |-> NoError, out |-> << <<>> >>]

\* request.parse(data)
Parse(r, data) ==
    IF r.kind = "getitem" THEN GetItemParse(r, data)
    ELSE IF r.kind = "attachments" THEN AttachmentsParse(r, data)
    ELSE IF r.kind = "comments" THEN CommentsParse(r, data)
    ELSE IF r.kind = "lookup" THEN LookupParse(r, data)
    ELSE NullParse(r, data)

\* what the backend may answer to one call of a request
ReplyEntries(kind) ==
    IF kind = "getitem"
    THEN [title : Contents, files : {<<>>}, messages : {<<>>}]
    ELSE IF kind = "attachments" THEN [name : Contents]
    ELSE [content : Contents]

BatchCmds == {"getitem", "attachments", "comments"}

\* Roundup.GetItemRequest(ids=...), AttachmentsRequest(attachment_ids=...),
\* CommentsRequest(comment_ids=...)
BatchNew ==
    /\ cmd = "none"
    /\ \/ \E ids \in IdLists(0, MaxBatch) :
            /\ cmd' = "getitem"
            /\ req' = GetItemRequest(ids, ItemAttributes)
            /\ pc' = "built" /\ err' = err
       \/ \E ids \in IdLists(0, MaxBatch), get_data \in BOOLEAN :
            /\ cmd' = "attachments"
            /\ req' = AttachmentsRequest(ids, get_data)
            /\ pc' = "built" /\ err' = err
       \/ \E ids \in IdLists(0, MaxBatch) :
            /\ cmd' = "comments"
            /\ req' = CommentsRequest(ids)
            \* line 458: if not any((self.ids, comment_ids)): raise ValueError
            /\ pc' = IF ids = <<>> THEN "failed" ELSE "built"
            /\ err' = IF ids = <<>> THEN Error("ValueError", "No ID(s) specified")
                      ELSE err
    /\ UNCHANGED <<cache, wire, reply, result, sent, encoded>>

\* request.encode_params(), the first time and once more
BatchEncode ==
    /\ cmd \in BatchCmds /\ pc \in {"built", "encoded"}
    /\ wire' = MulticallEncode(req.command, EncodeParams(req))
    /\ encoded' = Append(encoded, wire')
    /\ req' = Exhaust(req)
    /\ pc' = IF pc = "built" THEN "encoded" ELSE "reencoded"
    /\ UNCHANGED <<cmd, cache, reply, result, err, sent>>

\* the transport sends the payload and returns the backend's reply
BatchSend ==
    /\ cmd \in BatchCmds /\ pc = "encoded"
    /\ sent' = Append(sent, wire)
    /\ reply' \in SeqsOf(ReplyEntries(req.kind), 0, Len(wire) + 1)
    /\ pc' = "replied"
    /\ UNCHANGED <<cmd, cache, req, wire, result, err, encoded>>

\* request.parse(reply), consumed to its end
BatchDecode ==
    /\ cmd \in BatchCmds /\ pc = "replied"
    /\ LET r == Parse(req, reply)
       IN  /\ result' = r.out
           /\ err' = r.err
           /\ pc' = IF IsError(r.err) THEN "failed" ELSE "done"
    /\ UNCHANGED <<cmd, cache, req, wire, reply, sent, encoded>>

\* ----------------------------------------------------------------- backend
\* the files and messages the tracker holds for item i: n of each kind
FilesOf(i, n) == [j \in 1..n |-> 100 * i + j]

MessagesOf(i, n) == [j \in 1..n |-> 100 * i + 50 + j]

BackendFileName(f) == <<"name", ToString(f)>>

BackendMsgContent(m) == <<" ", "text", ToString(m), " ">>

\* the values of each class in the order of their ids: value j has id j
BackendValues ==
    [status |-> <<"open", "closed", "pending", "languishing">>,
     priority |-> <<"low", "normal", "high", "critical">>,
     keyword |-> <<"easy", "patch", "gui", "docs">>,
     user |-> <<"admin", "anonymous", "guido", "barry">>]

BackendLookup(attr, name) == IndexOf(name, BackendValues[attr])

\* the tracker's answer to one call of a multicall
BackendAnswer(call) ==
    IF call.methodName = "lookup"
    THEN BackendLookup(call.params[1], call.params[2])
    ELSE IF call.params[1][1] = "file"
    THEN [name |-> BackendFileName(call.params[1][2])]
    ELSE [content |-> BackendMsgContent(call.params[1][2])]

\* the tracker's reply to a multicall: one answer per call, in call order
BackendReply(calls) == [i \in 1..Len(calls) |-> BackendAnswer(calls[i])]

\* the message the tracker may have lost: the first message of item 3
Unreadable == <<"msg", MessagesOf(3, 1)[1]>>

UnreadableFault ==
    Fault("1", <<"<class '", "exceptions.IndexError", "'>:", "no such msg">>)

\* the reply of a tracker that answers the display of the lost message
\* with a fault
BackendFaultyReply(calls) ==
    [i \in 1..Len(calls) |->
        IF calls[i].methodName = "display" /\ calls[i].params[1] = Unreadable
        THEN UnreadableFault
        ELSE BackendAnswer(calls[i])]

\* ---------------------------------------------------------- item decoding
\* the first n values of a class, as a refresh stored them
Cached(attr, n) == SubSeq(BackendValues[attr], 1, n)

\* caches a session may have loaded
ItemCaches ==
    { [status |-> s, priority |-> Cached("priority", n),
       keyword |-> Cached("keyword", n), users |-> Cached("user", n)] :
        s \in StatusEntries, n \in 0..MaxVals }

\* the fields of an issue that hold codes
LinkFields == {"status", "priority", "creator", "actor"}

MultilinkFields == {"keywords", "keyword"}

\* what the tracker may answer for one field of an issue
FieldValues(k) ==
    IF k \in MultilinkFields THEN SeqsOf(Codes, 0, MaxKeywords)
    ELSE IF k = "priority" THEN Codes \cup {Unset}
    ELSE IF k = "activity" THEN {[date |-> "2018-01-01.10:00:00", microsecond |-> 5]}
    ELSE Codes

\* Roundup.GetItemRequest(ids=[1], fields=[k]) for a field k
ItemNew ==
    /\ cmd = "none"
    /\ \E k \in LinkFields \cup MultilinkFields \cup {"activity"} :
         req' = GetItemRequest(<<1>>, <<k>>)
    /\ cmd' = "item"
    /\ pc' = "built"
    /\ UNCHANGED <<cache, wire, reply, result, err, sent, encoded>>

\* request.send() up to the reply: the value of the field
ItemSend ==
    /\ cmd = "item" /\ pc = "built"
    /\ wire' = MulticallEncode(req.command, EncodeParams(req))
    /\ req' = Exhaust(req)
    /\ sent' = Append(sent, wire')
    /\ \E v \in FieldValues(req.fields[1]) :
         reply' = << (req.fields[1] :> v) >>
    /\ pc' = "replied"
    /\ UNCHANGED <<cmd, cache, result, err, encoded>>

\* _GetItemRequest.parse, consumed to its end
ItemDecode ==
    /\ cmd = "item" /\ pc = "replied"
    /\ LET r == GetItemParse(req, reply)
       IN  /\ result' = r.out
           /\ err' = r.err
           /\ pc' = IF IsError(r.err) THEN "failed" ELSE "done"
    /\ UNCHANGED <<cmd, cache, req, wire, reply, sent, encoded>>

\* ------------------------------------------------------- merged multicalls
\* MergedMulticall.encode_params: the calls of every request, in the order
\* the requests were supplied
MergedEncode(reqs) ==
    Concat([j \in 1..Len(reqs) |->
              MulticallEncode(reqs[j].command, EncodeParams(reqs[j]))])

\* the number of calls each request contributes
MergedSizes(reqs) == [j \in 1..Len(reqs) |-> Len(Params(reqs[j]))]

\* the slice of the combined reply that belongs to request j
MergedSlice(reqs, data, j) ==
    LET start == Sum(SubSeq(MergedSizes(reqs), 1, j - 1))
    IN  SubSeq(data, start + 1, start + MergedSizes(reqs)[j])

\* what each request's own parse makes of its slice
MergedParsed(reqs, data) ==
    [j \in 1..Len(reqs) |-> Parse(reqs[j], MergedSlice(reqs, data, j))]

\* MergedMulticall.parse: yields, per request and in request order, what the
\* request's own parse makes of its slice
MergedParse(reqs, data) ==
    IF Len(data) # Sum(MergedSizes(reqs)) THEN [err |-> ProtocolError, out |-> <<>>]
    ELSE LET parsed == MergedParsed(reqs, data)
             bad == {j \in 1..Len(reqs) : IsError(parsed[j].err)}
         IN  IF bad # {}
             THEN [err |-> parsed[CHOOSE j \in bad : \A i \in bad : j <= i].err,
                   out |-> <<>>]
             ELSE [err |-> NoError, out |-> [j \in 1..Len(reqs) |-> parsed[j].out]]

\* the payloads that go to the transport for one request per payload
SendsPerRequest(reqs) ==
    LET RECURSIVE each(_)
        each(j) ==
            IF j > Len(reqs) THEN <<>>
            ELSE (IF Params(reqs[j]) = <<>> THEN <<>>
                  ELSE << MulticallEncode(reqs[j].command, Params(reqs[j])) >>)
                 \o each(j + 1)
    IN  each(1)

\* merged_multicall(reqs=reqs).send(): the payloads that go to the
\* transport, one for all requests
MergedSends(reqs) == << MergedEncode(reqs) >>

\* --------------------------------------------------------------------- get
\* _GetRequest.__init__
GetRequest(ids, get_comments, get_attachments) ==
    [kind |-> "get", command |-> "display", ids |-> ids, fields |-> ItemAttributes,
     get_comments |-> get_comments, get_attachments |-> get_attachments,
     issues |-> <<>>, reqs |-> <<>>, data |-> <<>>, exhausted |-> FALSE]

\* a request list that appends the comments request before the attachments
GetReqsCommentsFirst(issues, get_attachments, get_comments) ==
    Concat([k \in 1..Len(issues) |->
        << IF issues[k].messages # <<>> /\ get_comments
           THEN CommentsRequest(issues[k].messages) ELSE NullRequest,
           IF issues[k].files # <<>> /\ get_attachments
           THEN AttachmentsRequest(issues[k].files, FALSE) ELSE NullRequest >>])

\* lines 392-403: per issue an attachments request or NullRequest, then a
\* comments request or NullRequest
GetReqs(issues, get_attachments, get_comments) ==
    Concat([k \in 1..Len(issues) |->
        << IF issues[k].files # <<>> /\ get_attachments
           THEN AttachmentsRequest(issues[k].files, FALSE) ELSE NullRequest,
           IF issues[k].messages # <<>> /\ get_comments
           THEN CommentsRequest(issues[k].messages) ELSE NullRequest >>])

\* lines 409-415: per issue the next two results of issue_data, the first
\* value of each, and no changes
GetYield(issues, issue_data) ==
    [k \in 1..Len(issues) |->
        [id |-> issues[k].id, title |-> issues[k].title,
         files |-> issues[k].files, messages |-> issues[k].messages,
         attachments |-> issue_data[2 * k - 1][1],
         comments |-> issue_data[2 * k][1],
         changes |-> <<>>]]

\* the ids of a get: n ids in an order that is not the sorted one,
\* <<1>>, <<2, 1>>, <<2, 3, 1>>, ...
GetIdLists == { [k \in 1..n |-> (k % n) + 1] : n \in 1..MaxItems }

\* the replies the tracker may give to the display calls of a get: per
\* requested issue its id, its files and its messages
GetReplies(ids) ==
    { [k \in 1..Len(ids) |->
          [id |-> ids[k], title |-> <<"a">>,
           files |-> FilesOf(ids[k], c[k][1]),
           messages |-> MessagesOf(ids[k], c[k][2])]] :
        c \in [1..Len(ids) -> (0..MaxFiles) \X (0..MaxFiles)] }

\* the replies in which the tracker reports a fault for one of the issues
GetFaultedReplies(ids) ==
    { [k \in 1..Len(ids) |->
          IF k = p THEN f
          ELSE [id |-> ids[k], title |-> <<"a">>, files |-> <<>>,
                messages |-> <<>>]] :
        p \in 1..Len(ids), f \in Faults }

\* an error translation that reports a missing field like a missing issue
HandleWithoutFieldPrefix(e) ==
    IF e.code \in {"exceptions.IndexError", "exceptions.KeyError"}
    THEN RoundupError(e.msg, NoCode)
    ELSE e

\* _GetRequest.handle_exception
handle_exception(e) ==
    IF e.code = "exceptions.IndexError" THEN RoundupError(e.msg, NoCode)
    ELSE IF e.code = "exceptions.KeyError"
    THEN RoundupError(<<"field doesn't exist: ">> \o e.msg, NoCode)
    ELSE e

\* a service error raised for the get request goes to its handle_exception
GetRaise(e) == IF e.kind = "RoundupError" THEN handle_exception(e) ELSE e

\* Roundup.GetRequest(ids=..., get_comments=..., get_attachments=...)
GetNew ==
    /\ cmd = "none"
    /\ \E ids \in GetIdLists, get_comments \in BOOLEAN, get_attachments \in BOOLEAN :
         req' = GetRequest(ids, get_comments, get_attachments)
    /\ cmd' = "get"
    /\ pc' = "built"
    /\ UNCHANGED <<cache, wire, reply, result, err, sent, encoded>>

\* request.send() up to the reply to the display calls
GetSend ==
    /\ cmd = "get" /\ pc = "built"
    /\ wire' = MulticallEncode(req.command, EncodeParams(req))
    /\ req' = Exhaust(req)
    /\ sent' = Append(sent, wire')
    /\ reply' \in GetReplies(req.ids) \cup GetFaultedReplies(req.ids)
    /\ pc' = "replied"
    /\ UNCHANGED <<cmd, cache, result, err, encoded>>

\* _GetRequest.parse up to the reply to its merged multicall: line 389
\* consumes every display result before anything is yielded
GetParseMerge ==
    /\ cmd = "get" /\ pc = "replied"
    /\ LET issues == GetItemParse(req, reply)
           reqs == GetReqs(issues.out, req.get_attachments, req.get_comments)
       IN  IF IsError(issues.err)
           THEN /\ err' = GetRaise(issues.err)
                /\ pc' = "failed"
                /\ UNCHANGED <<req, wire, sent, reply>>
           ELSE /\ req' = [req EXCEPT !.issues = issues.out,
                                      !.reqs = [j \in 1..Len(reqs) |-> Exhaust(reqs[j])]]
                /\ wire' = MergedEncode(reqs)
                /\ sent' = sent \o MergedSends(reqs)
                /\ reply' \in {BackendReply(wire'), BackendFaultyReply(wire')}
                /\ pc' = "merged"
                /\ err' = err
    /\ UNCHANGED <<cmd, cache, result, encoded>>

\* the first issue for which next(attachments) or next(comments) raises,
\* 0 if there is none
GetFirstRaising(parsed) ==
    LET bad == {k \in 1..(Len(parsed) \div 2) :
                  IsError(parsed[2 * k - 1].err) \/ IsError(parsed[2 * k].err)}
    IN  IF bad = {} THEN 0 ELSE CHOOSE k \in bad : \A j \in bad : k <= j

\* _GetRequest.parse from the merged reply on, consumed to its end or to
\* the exception that ends it: the issues before it have been yielded
GetParseYield ==
    /\ cmd = "get" /\ pc = "merged"
    /\ LET parsed == MergedParsed(req.reqs, reply)
           issue_data == [j \in 1..Len(parsed) |-> parsed[j].out]
           k == GetFirstRaising(parsed)
       IN  IF Len(reply) # Sum(MergedSizes(req.reqs))
           THEN /\ err' = ProtocolError
                /\ pc' = "failed"
                /\ UNCHANGED <<req, result>>
           ELSE IF k # 0
           THEN /\ err' = IF IsError(parsed[2 * k - 1].err)
                           THEN parsed[2 * k - 1].err ELSE parsed[2 * k].err
                /\ result' = GetYield(SubSeq(req.issues, 1, k - 1), issue_data)
                /\ pc' = "failed"
                /\ UNCHANGED req
           ELSE /\ req' = [req EXCEPT !.data = issue_data]
                /\ result' = GetYield(req.issues, issue_data)
                /\ pc' = "done"
                /\ err' = err
    /\ UNCHANGED <<cmd, cache, wire, reply, sent, encoded>>

\* ------------------------------------------------------------ search parse
\* a fetch of the matches that asks for every field of the issue
SearchFetchAllFields(data, fields) == GetItemRequest(data, ItemAttributes)

\* line 266: self.service.GetItemRequest(ids=data, fields=self.fields)
SearchFetchRequest(data, fields) == GetItemRequest(data, fields)

\* the tracker's answer to the display of some fields of issue i: the id,
\* the title 'a', no assignee
FieldAnswer(i, f) ==
    IF f = "id" THEN i ELSE IF f = "title" THEN <<"a">> ELSE Unset

ItemAnswer(call) ==
    [f \in {call.params[j] : j \in 2..Len(call.params)} |->
        FieldAnswer(call.params[1][2], f)]

\* the replies the tracker may give to the display calls of the matches:
\* every issue, or a fault in the place of the last one
SearchItemReplies(calls) ==
    { [k \in 1..Len(calls) |-> ItemAnswer(calls[k])],
      [k \in 1..Len(calls) |->
          IF k = Len(calls)
          THEN Fault("1", <<"<class '", "exceptions.IndexError", "'>:", "no such issue">>)
          ELSE ItemAnswer(calls[k])] }

\* _SearchRequest.parse up to the reply to line 266; without matches
\* nothing is sent and nothing is yielded
SearchFetch ==
    /\ cmd = "search" /\ pc = "replied"
    /\ req' = [req EXCEPT !.data = reply]
    /\ IF reply = <<>>
       THEN /\ result' = <<>>
            /\ pc' = "done"
            /\ UNCHANGED <<wire, sent, reply>>
       ELSE /\ wire' = MulticallEncode("display",
                          EncodeParams(SearchFetchRequest(reply, req.fields)))
            /\ sent' = Append(sent, wire')
            /\ reply' \in SearchItemReplies(wire')
            /\ pc' = "fetched"
            /\ result' = result
    /\ UNCHANGED <<cmd, cache, err, encoded>>

\* line 267: yield from issues, consumed to its end or to the exception
\* that ends it
SearchYield ==
    /\ cmd = "search" /\ pc = "fetched"
    /\ LET issues == GetItemParse(SearchFetchRequest(req.data, req.fields), reply)
       IN  /\ result' = issues.out
           /\ err' = issues.err
           /\ pc' = IF IsError(issues.err) THEN "failed" ELSE "done"
    /\ UNCHANGED <<cmd, cache, req, wire, reply, sent, encoded>>

\* ------------------------------------------------- comments by issue ids
\* _CommentsRequest.__init__ with issue ids and no comment ids
IssueCommentsRequest(ids) ==
    [kind |-> "comments", command |-> "display", ids |-> ids,
     comment_ids |-> <<>>, fields |-> <<>>, _id_info |-> <<>>, issues |-> <<>>]

\* line 471
req_fields == <<"id", "messages">>

\* the replies the tracker may give to the display of ('id', 'messages'):
\* per requested issue its id and its messages
IssueMessagesReplies(ids) ==
    { [k \in 1..Len(ids) |->
          [id |-> ids[k], messages |-> MessagesOf(ids[k], c[k])]] :
        c \in [1..Len(ids) -> 0..MaxMessages] }

\* the replies in which the tracker reports the last issue as missing
IssueMessagesFaulted(ids) ==
    { [k \in 1..Len(ids) |->
          IF k = Len(ids)
          THEN Fault("1", <<"<class '", "exceptions.IndexError", "'>:", "no such issue">>)
          ELSE [id |-> ids[k], messages |-> MessagesOf(ids[k], 1)]] }

\* lines 473-476: (id, number of messages) per issue
IdInfo(ids, issues) == [i \in 1..Len(issues) |-> <<ids[i], Len(issues[i].messages)>>]

\* lines 470-475: the messages of all issues, issue after issue
CommentIds(issues) == Concat([i \in 1..Len(issues) |-> issues[i].messages])

\* the reply of a tracker that drops the answer to the last call
BackendShortReply(calls) == SubSeq(BackendReply(calls), 1, Len(calls) - 1)

\* Roundup.CommentsRequest(ids=...)
IssueCommentsNew ==
    /\ cmd = "none"
    /\ \E ids \in GetIdLists : req' = IssueCommentsRequest(ids)
    /\ cmd' = "issuecomments"
    /\ pc' = "built"
    /\ UNCHANGED <<cache, wire, reply, result, err, sent, encoded>>

\* _CommentsRequest.encode_params up to the reply to line 472:
\* GetItemRequest(ids=self.ids, fields=req_fields).send()
IssueCommentsFetch ==
    /\ cmd = "issuecomments" /\ pc = "built"
    /\ wire' = MulticallEncode("display", EncodeParams(GetItemRequest(req.ids, req_fields)))
    /\ sent' = Append(sent, wire')
    /\ reply' \in IssueMessagesReplies(req.ids) \cup IssueMessagesFaulted(req.ids)
    /\ pc' = "fetched"
    /\ UNCHANGED <<cmd, cache, req, result, err, encoded>>

\* _CommentsRequest.encode_params from that reply on
IssueCommentsEncode ==
    /\ cmd = "issuecomments" /\ pc = "fetched"
    /\ LET issues == GetItemParse(GetItemRequest(req.ids, req_fields), reply)
           r == [req EXCEPT !.issues = issues.out,
                            !._id_info = IdInfo(req.ids, issues.out),
                            !.comment_ids = CommentIds(issues.out)]
       IN  IF IsError(issues.err)
           THEN /\ err' = issues.err
                /\ pc' = "failed"
                /\ UNCHANGED <<req, wire, encoded>>
           ELSE /\ req' = r
                /\ wire' = MulticallEncode(r.command, EncodeParams(r))
                /\ encoded' = Append(encoded, wire')
                /\ pc' = "encoded"
                /\ err' = err
    /\ UNCHANGED <<cmd, cache, reply, result, sent>>

\* the transport sends the display calls of the messages and returns the
\* tracker's reply
IssueCommentsSend ==
    /\ cmd = "issuecomments" /\ pc = "encoded"
    /\ sent' = Append(sent, wire)
    /\ reply' \in {BackendReply(wire), BackendFaultyReply(wire), BackendShortReply(wire)}
    /\ pc' = "replied"
    /\ UNCHANGED <<cmd, cache, req, wire, result, err, encoded>>

\* _CommentsRequest.parse, consumed to its end or to the exception that
\* ends it
IssueCommentsDecode ==
    /\ cmd = "issuecomments" /\ pc = "replied"
    /\ LET r == CommentsParse(req, reply)
       IN  /\ result' = r.out
           /\ err' = r.err
           /\ pc' = IF IsError(r.err) THEN "failed" ELSE "done"
    /\ UNCHANGED <<cmd, cache, req, wire, reply, sent, encoded>>

\* ----------------------------------------------------------- cache refresh
\* line 195
attrs == <<"status", "priority", "keyword", "user">>

\* line 198: self.multicall(command='list', params=attrs)
ListRequest == [kind |-> "list", command |-> "list", params |-> attrs]

\* the orders in which the list call may return the n values of a class
Listings(attr, n) ==
    { l \in [1..n -> {BackendValues[attr][j] : j \in 1..n}] :
        \A i \in 1..n, j \in 1..n : l[i] = l[j] => i = j }

AnyListing(attr) == UNION {Listings(attr, n) : n \in 0..MaxVals}

\* the listings of a class whose value n has been retired: the n values
\* with the ids 1..n-1 and n+1, in any order
RetiredListings(attr, n) ==
    { l \in [1..n -> {BackendValues[attr][j] : j \in (1..(n + 1)) \ {n}}] :
        \A i \in 1..n, j \in 1..n : l[i] = l[j] => i = j }

AnyRetiredListing(attr) == UNION {RetiredListings(attr, n) : n \in 1..MaxVals}

\* the replies the tracker may give to the list calls: per class its values
ListReplies ==
    { <<s, p, k, u>> : s \in AnyListing("status") \cup AnyRetiredListing("status"),
                       p \in AnyListing("priority"),
                       k \in AnyListing("keyword"), u \in AnyListing("user") }

\* lookup requests appended in the reverse order of the classes
LookupReqsReversed(names) ==
    [i \in 1..Len(attrs) |->
        LookupRequest(attrs[Len(attrs) + 1 - i], names[Len(attrs) + 1 - i])]

\* lines 203-207: one lookup request per class, in the order of attrs
LookupReqs(names) == [i \in 1..Len(attrs) |-> LookupRequest(attrs[i], names[i])]

\* sorted(zip(order, values)), then the values: zip stops at the shorter
\* list, the pairs are sorted by their id
SortedByOrder(order, values) ==
    LET n == Min(Len(order), Len(values))
        rank(i) == Cardinality({j \in 1..n : order[j] < order[i]
                                             \/ (order[j] = order[i] /\ j < i)}) + 1
    IN  [p \in 1..n |-> values[CHOOSE i \in 1..n : rank(i) = p]]

\* lines 210-212: the i-th result of the merged reply orders class i
SortedValues(names, data) ==
    [i \in 1..Len(attrs) |-> SortedByOrder(data[i], names[i])]

\* lines 215-219: the updates, the class user under the key users
ConfigUpdates(values) ==
    [status |-> values[1], priority |-> values[2], keyword |-> values[3],
     users |-> values[4]]

\* cache_updates up to the reply to the list calls; the login before them
\* builds the basic auth token from user and password and sends nothing
RefreshList ==
    /\ cmd = "none"
    /\ cmd' = "refresh"
    /\ req' = [kind |-> "refresh", names |-> <<>>, reqs |-> <<>>, data |-> <<>>]
    /\ wire' = MulticallEncode(ListRequest.command, ListRequest.params)
    /\ sent' = Append(sent, wire')
    /\ reply' \in ListReplies
    /\ pc' = "replied"
    /\ UNCHANGED <<cache, result, err, encoded>>

\* cache_updates up to the reply to the merged lookups
RefreshLookup ==
    /\ cmd = "refresh" /\ pc = "replied"
    /\ LET names == MulticallParse(Len(attrs), reply).out
           reqs == LookupReqs(names)
       IN  /\ req' = [req EXCEPT !.names = names,
                                 !.reqs = [j \in 1..Len(reqs) |-> Exhaust(reqs[j])]]
           /\ wire' = MergedEncode(reqs)
           /\ sent' = sent \o MergedSends(reqs)
           /\ reply' = BackendReply(wire')
    /\ pc' = "merged"
    /\ UNCHANGED <<cmd, cache, result, err, encoded>>

\* cache_updates from the merged reply to the returned updates
RefreshUpdates ==
    /\ cmd = "refresh" /\ pc = "merged"
    /\ LET data == MergedParse(req.reqs, reply)
       IN  IF IsError(data.err)
           THEN /\ err' = data.err
                /\ pc' = "failed"
                /\ UNCHANGED <<req, result>>
           ELSE /\ req' = [req EXCEPT !.data = data.out]
                /\ result' = ConfigUpdates(SortedValues(req.names, data.out))
                /\ pc' = "done"
                /\ err' = err
    /\ UNCHANGED <<cmd, cache, wire, reply, sent, encoded>>

\* ----------------------------------------------------------- specification
\* a session before its command runs: the cache as loaded from its file
Init ==
    /\ cmd = "none"
    /\ pc = "start"
    /\ cache \in { [CacheDefaults EXCEPT !.status = s] : s \in StatusEntries }
    /\ req = NoReq
    /\ wire = <<>>
    /\ reply = <<>>
    /\ result = <<>>
    /\ err = NoError
    /\ sent = <<>>
    /\ encoded = <<>>

\* the first session: nothing cached yet
InitDefault == Init /\ cache = CacheDefaults

\* a session after a refresh stored the first values of every class
InitCached ==
    /\ cmd = "none"
    /\ pc = "start"
    /\ cache \in ItemCaches
    /\ req = NoReq
    /\ wire = <<>>
    /\ reply = <<>>
    /\ result = <<>>
    /\ err = NoError
    /\ sent = <<>>
    /\ encoded = <<>>

SearchNext == SearchNew \/ SearchEncode \/ SearchSend \/ SearchFetch \/ SearchYield

BatchNext == BatchNew \/ BatchEncode \/ BatchSend \/ BatchDecode

GetNext == GetNew \/ GetSend \/ GetParseMerge \/ GetParseYield

RefreshNext == RefreshList \/ RefreshLookup \/ RefreshUpdates

ItemNext == ItemNew \/ ItemSend \/ ItemDecode

IssueCommentsNext ==
    \/ IssueCommentsNew \/ IssueCommentsFetch \/ IssueCommentsEncode
    \/ IssueCommentsSend \/ IssueCommentsDecode

Next ==
    \/ SearchNext \/ BatchNext \/ GetNext \/ RefreshNext \/ ItemNext
    \/ IssueCommentsNext

\* every command, from every cache
Spec == Init /\ [][Next]_vars

\* the search command, from every cache
SearchSpec == Init /\ [][SearchNext]_vars

\* the getitem, attachments and comments commands
BatchSpec == InitDefault /\ [][BatchNext]_vars

\* the get command
GetSpec == InitDefault /\ [][GetNext]_vars

\* the cache refresh
RefreshSpec == InitDefault /\ [][RefreshNext]_vars

\* the decoding of one field of an issue, from every cache
ItemSpec == InitCached /\ [][ItemNext]_vars

\* the comments command with issue ids
IssueCommentsSpec == InitDefault /\ [][IssueCommentsNext]_vars

\* the two commands that send merged multicalls
MergedNext == GetNext \/ RefreshNext

MergedSpec == InitDefault /\ [][MergedNext]_vars

\* ------------------------------------------------------------------ claims
Constructed ==
    /\ cmd = "search"
    /\ \/ pc \in {"built", "encoded", "reencoded", "replied", "fetched", "done"}
       \/ pc = "failed" /\ encoded # <<>>

\* a search request whose encode_params has returned
Encoded == cmd = "search" /\ pc \in {"encoded", "reencoded", "replied"}

\* a sort term the sorting map knows: 'name' or '-name'
ValidSortTerm(t) == \E n \in DOMAIN _sorting_map : t = <<n>> \/ t = <<"-", n>>

SortAccepted(query) == \A i \in 1..Len(query.sort) : ValidSortTerm(query.sort[i])

SearchFieldGiven(query) ==
    \E k \in {"terms", "status", "created", "modified"} : Given(query, k)

\* C1: a query in which no search field is recognised (only a sort, only
\* options the parser has no step for, or both) is rejected by _finalize with
\* the 'no supported search terms' error and no request is produced.
C1_NoRecognisedFieldRejected ==
    (cmd = "search" /\ ~SearchFieldGiven(req.query) /\ SortAccepted(req.query))
        => (pc = "failed" /\ err = NoTermsError /\ wire = <<>>)

C1_Witness ==
    /\ cmd = "search" /\ pc = "failed" /\ err = NoTermsError
    /\ req.query.sort = << <<"id">> >> /\ req.query.keywords # <<>>
    /\ DOMAIN req.params = {"sort"}

\* C2: for sort terms that are all in the sorting map the sort step writes
\* one (order, wire key) pair per term, in the user's order: '-' and the wire
\* key for '-name', '+' and the wire key for 'name'.
C2_SortTermsTranslatedInOrder ==
    (cmd = "search" /\ Given(req.query, "sort") /\ SortAccepted(req.query))
        => /\ "sort" \in DOMAIN req.params
           /\ Len(req.params["sort"]) = Len(req.query.sort)
           /\ \A i \in 1..Len(req.query.sort) :
                LET t == req.query.sort[i]
                IN  req.params["sort"][i] =
                        IF t[1] = "-" THEN <<"-", _sorting_map[t[2]]>>
                        ELSE <<"+", _sorting_map[t[1]]>>
           /\ (req.query.sort = << <<"-", "priority">>, <<"id">> >>
                 => req.params["sort"] = << <<"-", "priority">>, <<"+", "id">> >>)
           /\ (req.query.sort = << <<"-", "modified">> >>
                 => req.params["sort"] = << <<"-", "activity">> >>)

C2_Witness ==
    /\ cmd = "search"
    /\ req.query.sort = << <<"-", "priority">>, <<"id">> >>
    /\ "sort" \in DOMAIN req.params
    /\ req.params["sort"] = << <<"-", "priority">>, <<"+", "id">> >>

\* C3: every sort value holding a term whose field name is not in the
\* sorting map, the empty term and '-' included, is rejected with the
\* BiteError that lists every valid sort choice, and with no other error.
C3_UnknownSortTermIsInvalidQuery ==
    (cmd = "search" /\ Given(req.query, "sort") /\ ~SortAccepted(req.query))
        => (pc = "failed" /\ err.kind = "BiteError"
            /\ err.msg = "unable to sort by"
            /\ err.choices = DOMAIN _sorting_map)

\* C4: a constructed search request has a 'sort' parameter, the user's
\* parsed terms if a sort was given and [('+', 'id')] otherwise, and
\* encode_params finds it and removes it from its copy of the parameters.
C4_SortPresentAfterFinalize ==
    /\ Constructed =>
         /\ "sort" \in DOMAIN req.params
         /\ req.params["sort"] =
              IF Given(req.query, "sort")
              THEN [i \in 1..Len(req.query.sort) |-> SortTerm(req.query.sort[i])]
              ELSE << <<"+", "id">> >>
    /\ (cmd = "search" /\ pc = "failed") => err.kind # "KeyError"
    /\ Encoded =>
         /\ wire[4] = req.params["sort"]
         /\ DOMAIN wire[3] = DOMAIN req.params \ {"sort"}
         /\ \A k \in DOMAIN wire[3] : wire[3][k] = req.params[k]

C4_Witness ==
    /\ cmd = "search" /\ pc = "encoded"
    /\ ~Given(req.query, "sort")
    /\ wire[4] = << <<"+", "id">> >>
    /\ "sort" \notin DOMAIN wire[3]

\* C5: without a status filter from the user, a non-empty cached status
\* entry gives the status parameter the ascending 1-based positions of the
\* cached statuses not named 'closed', an empty entry adds no status
\* parameter; a status parameter the user gave is kept.
C5_DefaultStatusFilter ==
    Constructed =>
      /\ (~Given(req.query, "status") /\ cache.status # <<>>) =>
           /\ "status" \in DOMAIN req.params
           /\ LET s == req.params["status"]
              IN  /\ \A i \in 1..(Len(s) - 1) : s[i] < s[i + 1]
                  /\ {s[i] : i \in 1..Len(s)} =
                       {j \in 1..Len(cache.status) : cache.status[j] # "closed"}
      /\ (~Given(req.query, "status") /\ cache.status = <<>>) =>
           "status" \notin DOMAIN req.params
      /\ Given(req.query, "status") =>
           /\ "status" \in DOMAIN req.params
           /\ req.params["status"] =
                [i \in 1..Len(req.query.status) |->
                    IndexOf(req.query.status[i], cache.status)]

C5_Witness ==
    /\ Constructed
    /\ ~Given(req.query, "status")
    /\ cache.status = <<"closed", "open", "pending">>
    /\ req.params["status"] = <<2, 3>>

\* C6: with the cached status entry ['open', 'closed'] the query
\* {status: ['open'], sort: ['-modified']} is accepted, its parameters select
\* status code 1 and the sort ('-', 'activity'), and its options hold
\* 'Status: open' and 'Sort order: -modified'.
C6Query ==
    [NoQuery EXCEPT !.status = <<"open">>, !.sort = << <<"-", "modified">> >>]

BatchDecoded == cmd \in BatchCmds /\ pc \in {"done", "failed"} /\ sent # <<>>

\* C7: a batched request of N calls (get-item, attachments, comments by
\* message ids) whose reply has N entries decodes to N results in call order:
\* result i is built from reply entry i and, for attachments and comments,
\* carries the i-th requested id.
C7_ReplyOfNDecodesInOrder ==
    (BatchDecoded /\ Len(reply) = Len(wire)) =>
        /\ pc = "done"
        /\ cmd = "getitem" =>
             /\ Len(result) = Len(req.ids)
             /\ \A i \in 1..Len(req.ids) : result[i].title = reply[i].title
        /\ cmd = "attachments" =>
             /\ Len(result) = 1
             /\ Len(result[1]) = Len(req.attachment_ids)
             /\ \A i \in 1..Len(req.attachment_ids) :
                  /\ result[1][i].id = req.attachment_ids[i]
                  /\ result[1][i].filename = reply[i].name
        /\ cmd = "comments" =>
             /\ Len(result) = 1
             /\ Len(result[1]) = Len(req.comment_ids)
             /\ \A i \in 1..Len(req.comment_ids) :
                  /\ result[1][i].id = req.comment_ids[i]
                  /\ result[1][i].count = i - 1
                  /\ result[1][i].text = Strip(reply[i].content)

C7_Witness ==
    /\ cmd = "attachments" /\ pc = "done"
    /\ req.attachment_ids = <<2, 3, 1>>
    /\ Len(reply) = 3 /\ reply[1].name # reply[2].name
    /\ Len(result[1]) = 3
    /\ result[1][1].id = 2 /\ result[1][3].id = 1
    /\ result[1][2].filename = reply[2].name

MergedDecoded == cmd \in {"get", "refresh"} /\ pc = "done"

\* the reply a request gets when it is sent alone
StandaloneReply(r) == BackendReply(MulticallEncode(r.command, Params(r)))

\* the cache key of a class
CacheKey(attr) == IF attr = "user" THEN "users" ELSE attr

AttachmentsOf(issue) ==
    [j \in 1..Len(issue.files) |->
        [id |-> issue.files[j], filename |-> <<"name", ToString(issue.files[j])>>]]

CommentsOf(issue) ==
    [j \in 1..Len(issue.messages) |->
        [id |-> issue.messages[j], count |-> j - 1,
         text |-> <<"text", ToString(issue.messages[j])>>]]

\* C10: a get holds two slots per item in item order, attachments then
\* comments; item k is yielded k-th with the result of slot 2k as attachments
\* and of slot 2k+1 as comments (slots counted from 0), an item without files
\* or messages, or with that fetch disabled, gets the empty result, and no
\* item gets another item's data.
C10_GetPairsSlotsWithItems ==
    (cmd = "get" /\ pc = "done") =>
        /\ Len(req.reqs) = 2 * Len(req.ids)
        /\ Len(result) = Len(req.ids)
        /\ \A k \in 1..Len(req.ids) :
             LET issue == req.issues[k]
                 fetch_files == issue.files # <<>> /\ req.get_attachments
                 fetch_messages == issue.messages # <<>> /\ req.get_comments
             IN  /\ result[k].id = req.ids[k]
                 /\ req.reqs[2 * k - 1].kind =
                      (IF fetch_files THEN "attachments" ELSE "null")
                 /\ req.reqs[2 * k].kind =
                      (IF fetch_messages THEN "comments" ELSE "null")
                 /\ result[k].attachments = req.data[2 * k - 1][1]
                 /\ result[k].comments = req.data[2 * k][1]
                 /\ result[k].attachments =
                      (IF fetch_files THEN AttachmentsOf(issue) ELSE <<>>)
                 /\ result[k].comments =
                      (IF fetch_messages THEN CommentsOf(issue) ELSE <<>>)
                 /\ \A j \in 1..Len(result[k].attachments) :
                      result[k].attachments[j].id \div 100 = req.ids[k]
                 /\ \A j \in 1..Len(result[k].comments) :
                      result[k].comments[j].id \div 100 = req.ids[k]

\* items A (2: a file, no message), B (3: a message, no file), C (1: neither)
C10_Witness ==
    /\ cmd = "get" /\ pc = "done"
    /\ req.ids = <<2, 3, 1>>
    /\ req.get_attachments /\ req.get_comments
    /\ req.issues[1].files = <<201>> /\ req.issues[1].messages = <<>>
    /\ req.issues[2].files = <<>> /\ req.issues[2].messages = <<351>>
    /\ req.issues[3].files = <<>> /\ req.issues[3].messages = <<>>
    /\ result[1].attachments = << [id |-> 201, filename |-> <<"name", "201">>] >>
    /\ result[1].comments = <<>>
    /\ result[2].attachments = <<>>
    /\ result[2].comments = << [id |-> 351, count |-> 0, text |-> <<"text", "351">>] >>
    /\ result[3].attachments = <<>> /\ result[3].comments = <<>>

\* the files and messages a get fetches for a parsed issue
FetchedFiles(issue) ==
    IF issue.files # <<>> /\ req.get_attachments
    THEN [j \in 1..Len(issue.files) |-> <<"file", issue.files[j]>>] ELSE <<>>

FetchedMessages(issue) ==
    IF issue.messages # <<>> /\ req.get_comments
    THEN [j \in 1..Len(issue.messages) |-> <<"msg", issue.messages[j]>>] ELSE <<>>

\* the records a get has to display after its issues: per issue its
\* files, then its messages
FetchTargets ==
    Concat([k \in 1..Len(req.issues) |->
              FetchedFiles(req.issues[k]) \o FetchedMessages(req.issues[k])])

\* a get whose issues have been decoded
GetFetched == cmd = "get" /\ req.issues # <<>>

\* C11: a get of N items sends the display calls of all attachments and
\* comments of all its items in one payload, the second and last of the
\* command: one call per file and message to fetch, in item order, and no
\* call for a slot filled by the no-op request.
C11_OneMergedRoundTrip ==
    /\ cmd = "get" => Len(sent) <= 2
    /\ (cmd = "get" /\ ~GetFetched) => Len(sent) <= 1
    /\ GetFetched =>
         /\ Len(sent) = 2
         /\ Len(sent[2]) = Len(FetchTargets)
         /\ \A i \in 1..Len(sent[2]) :
              /\ sent[2][i].methodName = "display"
              /\ sent[2][i].params[1] = FetchTargets[i]
         /\ \A j \in 1..Len(req.reqs) :
              req.reqs[j].kind = "null" => MergedSlice(req.reqs, reply, j) = <<>>

C11_Witness ==
    /\ cmd = "get" /\ pc = "done"
    /\ Len(req.ids) = 3
    /\ req.get_attachments /\ req.get_comments
    /\ Len(sent) = 2
    /\ Len(sent[2]) = 3
    /\ req.issues[1].files # <<>> /\ req.issues[1].messages # <<>>
    /\ req.issues[2].files = <<>> /\ req.issues[2].messages = <<>>
    /\ req.issues[3].files = <<>> /\ req.issues[3].messages # <<>>
    /\ Cardinality({j \in 1..Len(req.reqs) : req.reqs[j].kind = "null"}) = 3

\* the positions of the issues of a get for which the tracker reported a
\* fault: in the reply to the display calls, or in the slices of their
\* attachments and comments
FaultyItems ==
    IF req.issues = <<>>
    THEN {k \in 1..Len(reply) : IsFault(reply[k])}
    ELSE {k \in 1..Len(req.issues) :
            \E j \in {2 * k - 1, 2 * k} :
               \E i \in 1..Len(MergedSlice(req.reqs, reply, j)) :
                  IsFault(MergedSlice(req.reqs, reply, j)[i])}

\* the parsed issue at position k has been delivered
Delivered(k) == \E i \in 1..Len(result) : result[i].id = req.ids[k]

\* C12: when the tracker reports a fault for exactly one item of a get, in
\* its display result or in its attachments or comments slice, every other
\* item of the get is still delivered to the caller.
C12_FaultKeepsOtherItems ==
    (cmd = "get" /\ pc \in {"done", "failed"} /\ Cardinality(FaultyItems) = 1)
        => \A k \in 1..Len(req.ids) : k \notin FaultyItems => Delivered(k)

\* the first fault of the reply to the display calls of a get
FirstFault == reply[CHOOSE k \in FaultyItems : \A j \in FaultyItems : k <= j]

\* the text of a fault string
FaultText(m) == m[Len(m)]

\* a get that failed on a fault in the reply to its display calls
GetFaulted == cmd = "get" /\ pc = "failed" /\ req.issues = <<>>

\* C18: the get request turns the service error of a fault with code
\* 'exceptions.IndexError' into a RoundupError with the error's message, of
\* one with code 'exceptions.KeyError' into a RoundupError whose message
\* says "field doesn't exist: " before it, so that the two differ for the
\* same text; both keep the tracker's text, and an error with any other
\* code is raised unchanged.
C18_GetErrorTranslation ==
    GetFaulted =>
        LET e == ServiceError(FirstFault)
            text == FaultText(FirstFault.faultString)
            as(c) == handle_exception(
                        ServiceError(Fault("1", <<"<class '", c, "'>:", text>>)))
        IN  /\ e.code = "exceptions.IndexError" =>
                 /\ err.kind = "RoundupError"
                 /\ err.msg = <<"Roundup error: ">> \o e.msg
                 /\ err # as("exceptions.KeyError")
            /\ e.code = "exceptions.KeyError" =>
                 /\ err.kind = "RoundupError"
                 /\ err.msg = <<"Roundup error: ", "field doesn't exist: ">> \o e.msg
                 /\ err # as("exceptions.IndexError")
            /\ e.code \notin {"exceptions.IndexError", "exceptions.KeyError"} =>
                 err = e
            /\ FaultText(err.msg) = text

C18_Witness ==
    /\ GetFaulted
    /\ Len(req.ids) = 3
    /\ IsFault(reply[2])
    /\ reply[2].faultString =
         <<"<class '", "exceptions.KeyError", "'>:", "title">>
    /\ err.msg = <<"Roundup error: ", "field doesn't exist: ",
                   "Roundup error: ", "title">>

\* an issue decoded from the reply for one field
ItemDecoded == cmd = "item" /\ pc \in {"done", "failed"}

\* the field of the reply, its value and the cache entry that resolves it
ItemField == req.fields[1]

ItemValue == reply[1][ItemField]

ItemEntry ==
    IF ItemField \in {"creator", "actor"} THEN cache.users
    ELSE IF ItemField \in MultilinkFields THEN cache.keyword
    ELSE cache[ItemField]

\* the code c has a position in the entry: 1 <= c <= length
InRange(entry, c) == 1 <= int(c) /\ int(c) <= Len(entry)

\* C13: for status, priority, creator and actor and every code c with
\* 1 <= c <= length of the cached entry, the decoded issue holds the cached
\* name at index c-1; with the status entry ['open', 'closed'] code 1 gives
\* 'open' and code 2 gives 'closed'.
C13_CodeInRangeResolves ==
    (ItemDecoded /\ ItemField \in LinkFields /\ ItemValue # Unset
       /\ InRange(ItemEntry, ItemValue)) =>
        /\ pc = "done"
        /\ result[1][ItemField] = ItemEntry[int(ItemValue)]
        /\ (ItemField = "status" /\ cache.status = <<"open", "closed">>) =>
             /\ ItemValue = "1" => result[1].status = "open"
             /\ ItemValue = "2" => result[1].status = "closed"

C13_Witness ==
    /\ ItemDecoded /\ pc = "done"
    /\ ItemField = "status"
    /\ cache.status = <<"open", "closed">>
    /\ ItemValue = "2"
    /\ result[1].status = "closed"

\* C14: for status, priority, creator and actor and every code whose
\* position code-1 is outside the cached entry (a code above its length,
\* code 0, a negative code, any code of an empty entry), decoding does not
\* fail and the decoded issue holds the raw code, no cached name.
C14_CodeOutOfRangeKeepsRawCode ==
    (ItemDecoded /\ ItemField \in LinkFields /\ ItemValue # Unset
       /\ ~InRange(ItemEntry, ItemValue)) =>
        /\ pc = "done"
        /\ result[1][ItemField] = ItemValue

\* the name or raw code the cached keyword entry gives for a code
KeywordOf(c) == IF InRange(cache.keyword, c) THEN cache.keyword[int(c)] ELSE c

\* C17: the keyword codes of a decoded issue's keywords field are each
\* resolved against the cached keyword entry: the name at index code-1, the
\* raw code for an element out of range, as many and in the same order.
C17_KeywordsResolved ==
    (ItemDecoded /\ ItemField = "keywords") =>
        /\ pc = "done"
        /\ Len(result[1].keywords) = Len(ItemValue)
        /\ \A i \in 1..Len(ItemValue) :
             result[1].keywords[i] = KeywordOf(ItemValue[i])

\* a refresh that has computed its updates
Refreshed == cmd = "refresh" /\ pc = "done"

\* C15: after a refresh every value the tracker listed for status,
\* priority, keyword and user, with lookup id n, is at index n-1 of the
\* refreshed sequence of its class, so that code n resolves to it.
C15_RefreshedIndexIsLookupId ==
    Refreshed =>
        \A i \in 1..Len(attrs) :
            \A p \in 1..Len(req.names[i]) :
                LET v == req.names[i][p]
                    n == BackendLookup(attrs[i], v)
                    values == result[CacheKey(attrs[i])]
                IN  Len(values) >= n /\ values[n] = v

\* the lookup calls of a refresh: per class, in the order of attrs, one
\* call per value the list call returned
LookupCalls(names) ==
    Concat([i \in 1..Len(attrs) |->
              [p \in 1..Len(names[i]) |->
                  [methodName |-> "lookup", params |-> <<attrs[i], names[i][p]>>]]])

\* C16: a refresh sends the list calls for status, priority, keyword and
\* user first and, after their reply, one merged payload with one lookup
\* call per listed value, class by class in that order: two payloads in
\* all; the i-th result orders the i-th class, and the cache is not
\* changed while the updates are computed.
C16_RefreshListThenLookups ==
    cmd = "refresh" =>
        /\ cache = CacheDefaults
        /\ Len(sent) >= 1
        /\ sent[1] = [i \in 1..4 |->
                        [methodName |-> "list",
                         params |-> <<"status", "priority", "keyword", "user">>[i]]]
        /\ pc = "replied" => Len(sent) = 1
        /\ pc # "replied" =>
             /\ Len(sent) = 2
             /\ sent[2] = LookupCalls(req.names)
        /\ pc = "done" =>
             \A i \in 1..Len(attrs) :
                /\ req.data[i] = [p \in 1..Len(req.names[i]) |->
                                     BackendLookup(attrs[i], req.names[i][p])]
                /\ result[CacheKey(attrs[i])] =
                     SortedByOrder(req.data[i], req.names[i])

C16_Witness ==
    /\ Refreshed
    /\ req.names = << <<"closed", "open">>, <<"normal", "low">>, <<"easy">>, <<>> >>
    /\ Len(sent) = 2
    /\ Len(sent[2]) = 5
    /\ sent[2][3].params = <<"priority", "normal">>
    /\ result.priority = <<"low", "normal">>

\* a request whose encode_params has been called twice
Reencoded == pc = "reencoded"

\* C19: calling encode twice on the same request (search, get-item,
\* attachments, comments) returns the same wire parameters both times, the
\* second time neither empty nor shorter, and encoding a search request
\* leaves its stored parameters, 'sort' included, as construction made them.
C19_EncodeTwiceSame ==
    Reencoded =>
        /\ Len(encoded) = 2
        /\ encoded[2] = encoded[1]
        /\ cmd = "search" =>
             /\ req.params = parse_params(req.query, cache.status).params
             /\ "sort" \in DOMAIN req.params

\* C20: nothing is sent to the transport while a search request is being
\* constructed: a request that has been built, or whose construction failed
\* (unknown sort term, no supported search terms, unknown field name), has
\* sent nothing, and the first payload a search sends is the encoded query of
\* a request constructed without error.
C20_NoSendDuringConstruction ==
    cmd = "search" =>
        /\ pc \in {"built", "encoded", "reencoded"} => sent = <<>>
        /\ (pc = "failed" /\ encoded = <<>>) => sent = <<>>
        /\ pc = "failed" => IsError(err)
        /\ sent # <<>> =>
             /\ pc \in {"replied", "fetched", "done", "failed"}
             /\ sent[1] = encoded[1]
             /\ pc = "replied" => (~IsError(err) /\ sent = <<wire>>)

C20_Witness ==
    /\ cmd = "search" /\ pc = "failed"
    /\ req.query.fields = <<"id", "bogus">>
    /\ err = UnknownFieldsError(<<"id", "bogus">>)
    /\ err.key = <<"bogus">>
    /\ sent = <<>>

\* the comments of issue ids have been decoded to the end of the reply
IssueCommentsDecoded == cmd = "issuecomments" /\ pc = "done"

\* the ids the comments of a result carry, group after group
ResultCommentIds ==
    Concat([k \in 1..Len(result) |->
              [i \in 1..Len(result[k]) |-> result[k][i].id]])

\* C21: comments requested by issue ids are decoded into one group per
\* requested issue, in the order of the requested ids; the group of an issue
\* holds one comment per message of that issue (none for an issue without
\* messages), the i-th of them with the sequence index i-1, the id of the
\* issue's i-th message and that message's text; the j-th comment overall
\* carries the j-th fetched message id.
C21_CommentsGroupedByIssue ==
    IssueCommentsDecoded =>
        /\ Len(result) = Len(req.ids)
        /\ \A k \in 1..Len(result) :
              /\ req.issues[k].id = req.ids[k]
              /\ Len(result[k]) = Len(req.issues[k].messages)
              /\ \A i \in 1..Len(result[k]) :
                    /\ result[k][i].count = i - 1
                    /\ result[k][i].id = req.issues[k].messages[i]
                    /\ result[k][i].text =
                          Strip(BackendMsgContent(req.issues[k].messages[i]))
        /\ ResultCommentIds = req.comment_ids

\* three issues: the first with two messages, the second with none, the
\* third with two
C21_Witness ==
    /\ IssueCommentsDecoded
    /\ Len(result) = 3
    /\ Len(result[1]) = 2 /\ result[2] = <<>> /\ Len(result[3]) = 2
    /\ result[3][2].count = 1
    /\ result[3][2].id = MessagesOf(req.ids[3], 2)[2]

\* a search whose filter call has been answered and whose parse has begun
SearchParsing ==
    /\ cmd = "search"
    /\ pc \in {"fetched", "done"} \/ (pc = "failed" /\ Len(sent) > 1)

\* the field list of a search: the user's, or id, assignee and title
FieldList == IF req.query.fields = <<>> THEN <<"id", "assignee", "title">>
             ELSE req.query.fields

\* one display call per id, each for the issue and the field list
FetchCalls(ids) ==
    [k \in 1..Len(ids) |->
        [methodName |-> "display", params |-> << <<"issue", ids[k]>> >> \o FieldList]]

\* C22: a search sends its filter request first; when the reply lists no
\* ids nothing more is sent and the result is empty; otherwise exactly one
\* batched display request follows, with one call per returned id in the
\* returned order, each restricted to the search's field list (id,
\* assignee, title when the user named none), and the items of a search
\* that ends without error are yielded in that id order.
C22_FilterThenFetch ==
    /\ (cmd = "search" /\ sent # <<>>) => sent[1] = encoded[1]
    /\ SearchParsing =>
          IF req.data = <<>>
          THEN Len(sent) = 1 /\ result = <<>>
          ELSE /\ Len(sent) = 2
               /\ sent[2] = FetchCalls(req.data)
               /\ pc = "done" =>
                     [k \in 1..Len(result) |-> result[k].id] = req.data

\* a search without a fields argument whose filter call returned 2 and 1
C22_Witness ==
    /\ SearchParsing /\ pc = "done"
    /\ req.query.fields = <<>>
    /\ req.data = <<2, 1>>
    /\ Len(sent) = 2
    /\ sent[2][1].params = << <<"issue", 2>>, "id", "assignee", "title" >>
    /\ Len(result) = 2 /\ result[1].id = 2 /\ result[2].id = 1

\* the option lines of the request with the given label
OptionsLabelled(label) ==
    {i \in 1..Len(req.options) : req.options[i].label = label}

\* the timestamps a query can name
Timestamps == 1..MaxTime

\* C23: for every timestamp t the step run for 'modified' writes the same
\* wire value and the same form of option text as the step run for
\* 'created', under its own field name; each writes only its own key, so a
\* constructed search holds one constraint and one option line per given
\* field of the two, and a query that sets both and nothing else has both
\* constraints and exactly two option lines from its translation (the line
\* of a fields argument is not one of them).
C23_ModifiedAliasesCreated ==
    /\ \A t \in Timestamps :
          LET c == created(NewParser, "created", t)
              m == created(NewParser, "modified", t)
          IN  /\ DOMAIN c.params = {"created"} /\ DOMAIN m.params = {"modified"}
              /\ m.params["modified"] = c.params["created"]
              /\ Len(c.options) = 1 /\ Len(m.options) = 1
              /\ m.options[1].value = c.options[1].value
              /\ c.options[1].label = "Created" /\ m.options[1].label = "Modified"
    /\ _params_map["created"] # _params_map["modified"]
    /\ Constructed =>
          /\ \A k \in {"created", "modified"} :
                IF Given(req.query, k)
                THEN /\ k \in DOMAIN req.params
                     /\ req.params[k] = SinceValue(req.query[k])
                ELSE k \notin DOMAIN req.params
          /\ Cardinality(OptionsLabelled("Created")) =
                IF Given(req.query, "created") THEN 1 ELSE 0
          /\ Cardinality(OptionsLabelled("Modified")) =
                IF Given(req.query, "modified") THEN 1 ELSE 0
          /\ GivenFields(req.query) = {"created", "modified"} =>
                Cardinality({i \in 1..Len(req.options) :
                               req.options[i].label # "Fields"}) = 2

\* a search constructed from a query that sets both fields
C23_Witness ==
    /\ Constructed /\ pc = "built"
    /\ Given(req.query, "created") /\ Given(req.query, "modified")
    /\ req.params["created"] = SinceValue(req.query.created)
    /\ req.params["modified"] = SinceValue(req.query.modified)
    /\ Len(req.options) = 2
    /\ req.options[1].label = "Created" /\ req.options[2].label = "Modified"

\* the codes a service error can be constructed with
PassedCodes == {"1", NoCode}

\* how often the message of an error holds the prefix
PrefixCount(e) ==
    Cardinality({i \in 1..Len(e.msg) : e.msg[i] = "Roundup error: "})

\* C24: every fault message converts to a RoundupError: a message of the
\* form <class 'CODE'>:MSG gives the code CODE, whatever code was passed in,
\* and the message 'Roundup error: ' followed by MSG; any other message
\* keeps the passed-in code and follows the prefix as a whole; and the
\* error a failed get raises after its error translation holds the prefix
\* 'Roundup error: ' exactly once.
C24_FaultConvertsPrefixOnce ==
    /\ \A m \in FaultStrings, code \in PassedCodes :
          LET e == RoundupError(m, code)
          IN  /\ e.kind = "RoundupError"
              /\ IF Len(m) = 4 /\ m[1] = "<class '" /\ m[3] = "'>:"
                 THEN e.code = m[2] /\ e.msg = <<"Roundup error: ", m[4]>>
                 ELSE e.code = code /\ e.msg = <<"Roundup error: ">> \o m
    /\ (GetFaulted /\ err.kind = "RoundupError") => PrefixCount(err) = 1
====
